---- MODULE Spec2Model ----
(***************************************************************************)
(* configman (src/src/cli.rs): one directory walk over the source tree,    *)
(* with a per-mode callback that acts on the destination tree.             *)
(*                                                                         *)
(* The filesystem is a map from locations to nodes.  A location is a path  *)
(* written as a sequence of components: <<"S", ...>> lies under the source *)
(* directory, <<"D", ...>> under the destination directory, and <<"X">>,   *)
(* <<"Y">> are two paths outside both trees (X an existing regular file,   *)
(* Y a path where nothing exists), used as targets of foreign symlinks.    *)
(***************************************************************************)
EXTENDS Naturals, Sequences, FiniteSets, TLC

\* ---- bounds ------------------------------------------------------------
\* number of successive invocations of the program on the same trees
MaxRuns == 2
\* number of symbolic links a path resolution follows before giving up
MaxHops == 3

\* ---- the path universe -------------------------------------------------
Source == <<"S">>
Destination == <<"D">>
ExtFile == <<"X">>
ExtGone == <<"Y">>

\* relative paths the trees may hold
Rel ==
  { <<"a">>, <<"sub">>, <<"sub", "b">>, <<".git">>, <<".git", "config">> }

Loc ==
  {Source, Destination, ExtFile, ExtGone}
    \cup {Source \o r : r \in Rel} \cup {Destination \o r : r \in Rel}

\* ---- nodes -------------------------------------------------------------
\* k: "none" | "file" | "dir" | "link";  v: a file's content (named by the
\* place it was first stored at) or a link's target path
None == [k |-> "none", v |-> <<>>]
Dir == [k |-> "dir", v |-> <<>>]
File(c) == [k |-> "file", v |-> c]
Link(t) == [k |-> "link", v |-> t]
\* a directory whose entries cannot be listed (no read permission)
Unreadable == [k |-> "dir", v |-> <<"unreadable">>]

Parent(l) == SubSeq(l, 1, Len(l) - 1)

\* Path::join and Path::strip_prefix on component sequences
Join(base, rel) == base \o rel
StripPrefix(path, base) == SubSeq(path, Len(base) + 1, Len(path))

RECURSIVE Stat(_, _, _)
RECURSIVE Lstat(_, _)
\* symlink_metadata: the node at l itself; nothing when a parent is no directory
Lstat(f, l) ==
  IF l \notin DOMAIN f THEN None
  ELSE IF Len(l) > 1 /\ Stat(f, Parent(l), MaxHops).k # "dir" THEN None
  ELSE f[l]
\* metadata: the node l resolves to, following symbolic links (n hops left)
Stat(f, l, n) ==
  LET nd == Lstat(f, l)
  IN  IF nd.k = "link"
      THEN IF n = 0 THEN None ELSE Stat(f, nd.v, n - 1)
      ELSE nd

\* Path::exists, Path::is_dir, Path::is_file (all follow symbolic links)
Exists(f, l) == Stat(f, l, MaxHops).k # "none"
IsDir(f, l) == Stat(f, l, MaxHops).k = "dir"
IsFile(f, l) == Stat(f, l, MaxHops).k = "file"
IsSymlink(f, l) == Lstat(f, l).k = "link"

RECURSIVE FinalLoc(_, _, _)
\* the location an open() of l lands on: links followed, the last one may dangle
FinalLoc(f, l, n) ==
  LET nd == Lstat(f, l)
  IN  IF nd.k = "link"
      THEN IF n = 0 THEN <<>> ELSE FinalLoc(f, nd.v, n - 1)
      ELSE l

\* ---- configuration -----------------------------------------------------
\* the flag combinations clap lets through (conflicts_with declarations)
FlagSets ==
  { c \in [dry_run : BOOLEAN, import : BOOLEAN, remove : BOOLEAN,
           interactive : BOOLEAN] :
      /\ ~(c.import /\ c.remove)
      /\ ~(c.dry_run /\ c.interactive) }

\* the selection with --import tested before --dry-run
Mode_ImportFirst(c) ==
  IF c.import THEN "Import"
  ELSE IF c.dry_run THEN "DryRun"
  ELSE IF c.remove THEN "Remove"
  ELSE "Normal"

\* the mode `run` selects from the flags
Mode(c) ==
  IF c.dry_run THEN "DryRun"
  ELSE IF c.import THEN "Import"
  ELSE IF c.remove THEN "Remove"
  ELSE "Normal"

\* what the user may do at a prompt: confirm, decline, or the prompt fails
Answers == {"y", "n", "err"}

VARIABLES
  fs,       \* the filesystem: Loc -> node
  flags,    \* the parsed command line of the current invocation
  stack,    \* the walker: directory frames still to yield, innermost first
  pc,       \* "walk" while dir_walk iterates, "done" after run returned
  result,   \* "running" | "ok" | "err": what run returned
  trace,    \* what the current invocation did so far (events, in order)
  fs0,      \* the filesystem when the current invocation started
  run,      \* number of the current invocation
  hist      \* the finished invocations, oldest first

vars == <<fs, flags, stack, pc, result, trace, fs0, run, hist>>

\* ---- events ------------------------------------------------------------
\* e: "visit" (callback entered), "prompt", "log", or a filesystem mutation
\* "mkdir" | "unlink" | "symlink" | "copy";  p: the path;  x: details
Ev(e, p, x) == [e |-> e, p |-> p, x |-> x]
Mutations == {"mkdir", "unlink", "symlink", "copy"}

\* a computation in progress: filesystem, events so far, no error yet
Emit(st, ev) == [st EXCEPT !.tr = Append(@, ev)]
Fail(st) == [st EXCEPT !.ok = FALSE]
Put(st, l, nd, ev) == [fs |-> [st.fs EXCEPT ![l] = nd], tr |-> Append(st.tr, ev), ok |-> TRUE]

\* log::info! / log::warn! with the message's tag and path
LogInfo(st, tag, l) == IF st.ok THEN Emit(st, Ev("log", l, <<"info", tag>>)) ELSE st
LogWarn(st, tag, l) == IF st.ok THEN Emit(st, Ev("log", l, <<"warn", tag>>)) ELSE st

\* ---- filesystem primitives --------------------------------------------
\* the mkdir system call: "ok" or the error it reports
MkdirErr(f, l) ==
  IF l \notin DOMAIN f THEN "other"
  ELSE IF Len(l) > 1 /\ Stat(f, Parent(l), MaxHops).k = "none" THEN "notfound"
  ELSE IF Len(l) > 1 /\ Stat(f, Parent(l), MaxHops).k # "dir" THEN "notdir"
  ELSE IF f[l].k # "none" THEN "exists"
  ELSE "ok"

Mkdir(st, l) == Put(st, l, Dir, Ev("mkdir", l, <<>>))

RECURSIVE CreateDirAll(_, _)
\* fs::create_dir_all: mkdir, creating the missing parents first
CreateDirAll(st, l) ==
  IF ~st.ok THEN st
  ELSE IF l = <<>> THEN st
  ELSE LET e1 == MkdirErr(st.fs, l)
       IN  IF e1 = "ok" THEN Mkdir(st, l)
           ELSE IF e1 # "notfound"
           THEN IF IsDir(st.fs, l) THEN st ELSE Fail(st)
           ELSE LET up == CreateDirAll(st, Parent(l))
                IN  IF ~up.ok THEN up
                    ELSE IF MkdirErr(up.fs, l) = "ok" THEN Mkdir(up, l)
                    ELSE IF IsDir(up.fs, l) THEN up ELSE Fail(up)

\* os::unix::fs::symlink(src, target): a new link at target pointing to src
Symlink(st, src, target) ==
  IF ~st.ok THEN st
  ELSE IF target \notin DOMAIN st.fs THEN Fail(st)
  ELSE IF Len(target) > 1 /\ ~IsDir(st.fs, Parent(target)) THEN Fail(st)
  ELSE IF st.fs[target].k # "none" THEN Fail(st)
  ELSE Put(st, target, Link(src), Ev("symlink", target, src))

\* fs::remove_file: unlinks a file or a symbolic link, never a directory
RemoveFile(st, l) ==
  IF ~st.ok THEN st
  ELSE IF Lstat(st.fs, l).k \in {"file", "link"}
       THEN Put(st, l, None, Ev("unlink", l, <<>>))
       ELSE Fail(st)

\* fs::copy(from, to): to is opened for writing (created, truncated)
\* through symbolic links; from must be a regular file
Copy(st, from, to) ==
  IF ~st.ok THEN st
  ELSE LET dst == FinalLoc(st.fs, to, MaxHops)
       IN  IF ~IsFile(st.fs, from) THEN Fail(st)
           ELSE IF dst \notin DOMAIN st.fs THEN Fail(st)
           ELSE IF Len(dst) > 1 /\ ~IsDir(st.fs, Parent(dst)) THEN Fail(st)
           ELSE IF st.fs[dst].k = "dir" THEN Fail(st)
           ELSE Put(st, dst, File(Stat(st.fs, from, MaxHops).v),
                    Ev("copy", to, from))

\* ---- the confirmation gate --------------------------------------------
\* prompt with a failed prompt counting as yes
Prompt_FailureIsYes(ans) == ans \in {"y", "err"}

\* utils::prompt: the answer, a failed prompt counting as no
Prompt(ans) == ans = "y"

\* Configman::ask_and_run, in two parts.  Asked: the prompt is put when
\* --interactive is set.  AskAndRun: `ran` is the outcome of the closure run
\* from the state `asked`; it is the result when the gate lets the closure
\* run, and `asked` is the result when it does not.
Asked(st, what, l, ans) ==
  IF st.ok /\ flags.interactive
  THEN Emit(st, Ev("prompt", l, <<what, ans>>))
  ELSE st

\* the gate running the closure whatever the answer
AskAndRun_IgnoresAnswer(asked, ans, ran) ==
  IF ~asked.ok THEN asked ELSE ran

AskAndRun(asked, ans, ran) ==
  IF ~asked.ok THEN asked
  ELSE IF flags.interactive
       THEN IF Prompt(ans) THEN ran ELSE asked
       ELSE ran

\* ---- filesystem actions -----------------------------------------------
\* Configman::create_dir
CreateDir(st, target, ans) ==
  LET q == Asked(st, "Create dir", target, ans)
  IN  AskAndRun(q, ans, LogInfo(CreateDirAll(q, target), "CREATE", target))

\* create_file with the link pointing at the path relative to the source
\* directory instead of the source path itself
CreateFile_RelativeLink(st, src, target, ans) ==
  IF ~st.ok THEN st
  ELSE LET exist == Exists(st.fs, target)
           q == Asked(st, IF exist THEN "Overwrite" ELSE "Create symlink",
                      target, ans)
       IN  AskAndRun(q, ans,
                     LogInfo(Symlink(IF exist THEN RemoveFile(q, target) ELSE q,
                                     StripPrefix(src, Source), target),
                             "LINK", target))

\* Configman::create_file
CreateFile(st, src, target, ans) ==
  IF ~st.ok THEN st
  ELSE LET exist == Exists(st.fs, target)
           q == Asked(st, IF exist THEN "Overwrite" ELSE "Create symlink",
                      target, ans)
       IN  AskAndRun(q, ans,
                     LogInfo(Symlink(IF exist THEN RemoveFile(q, target) ELSE q,
                                     src, target),
                             "LINK", target))

\* ---- the per-mode callbacks -------------------------------------------
\* the dry-run callback creating the missing directory it reports
CbDryRun_Creates(st, path, target) ==
  IF IsDir(st.fs, path)
  THEN IF ~Exists(st.fs, target)
       THEN LogInfo(CreateDirAll(st, target), "CREATE", target)
       ELSE st
  ELSE IF IsFile(st.fs, path)
       THEN IF Exists(st.fs, target) THEN LogInfo(st, "SKIP", target)
            ELSE LogInfo(st, "LINK", target)
       ELSE Fail(st)

\* the dry-run callback passing over what is neither file nor directory
CbDryRun_IgnoresOther(st, path, target) ==
  IF IsDir(st.fs, path)
  THEN IF ~Exists(st.fs, target) THEN LogInfo(st, "CREATE", target) ELSE st
  ELSE IF IsFile(st.fs, path)
       THEN IF Exists(st.fs, target) THEN LogInfo(st, "SKIP", target)
            ELSE LogInfo(st, "LINK", target)
       ELSE st

CbDryRun(st, path, target) ==
  IF IsDir(st.fs, path)
  THEN IF ~Exists(st.fs, target) THEN LogInfo(st, "CREATE", target) ELSE st
  ELSE IF IsFile(st.fs, path)
       THEN IF Exists(st.fs, target) THEN LogInfo(st, "SKIP", target)
            ELSE LogInfo(st, "LINK", target)
       ELSE Fail(st)

\* the remove callback without the comparison of the link's target
CbRemove_AnyLink(st, path, target, ans) ==
  IF IsFile(st.fs, target) /\ IsSymlink(st.fs, target)
  THEN LET q == Asked(st, "Remove", target, ans)
       IN  AskAndRun(q, ans, LogInfo(RemoveFile(q, target), "UNLINKED", target))
  ELSE st

\* the remove callback comparing the link's target with the link's own path
CbRemove_ComparesTarget(st, path, target, ans) ==
  IF IsFile(st.fs, target) /\ IsSymlink(st.fs, target)
  THEN LET real_file == Lstat(st.fs, target).v
       IN  IF real_file = target
           THEN LET q == Asked(st, "Remove", target, ans)
                IN  AskAndRun(q, ans,
                              LogInfo(RemoveFile(q, target), "UNLINKED", target))
           ELSE st
  ELSE st

CbRemove(st, path, target, ans) ==
  IF IsFile(st.fs, target) /\ IsSymlink(st.fs, target)
  THEN LET real_file == Lstat(st.fs, target).v
       IN  IF real_file = path
           THEN LET q == Asked(st, "Remove", target, ans)
                IN  AskAndRun(q, ans,
                              LogInfo(RemoveFile(q, target), "UNLINKED", target))
           ELSE st
  ELSE st

\* the import callback without the test that the destination is absent
CbImport_NoExistsCheck(st, src, target, ans) ==
  LET s1 == IF IsDir(st.fs, src) THEN CreateDir(st, target, ans) ELSE st
  IN  IF s1.ok /\ IsFile(s1.fs, src)
      THEN CreateFile(RemoveFile(Copy(s1, src, target), src), target, src, ans)
      ELSE s1

\* the import of a file deleting the source before copying it
ImportStages_RemoveFirst(st, src, target) ==
  LET removed == RemoveFile(st, src)
  IN  <<removed, Copy(removed, src, target)>>

\* the import of a file, up to the call of create_file: the state after
\* fs::copy, then the state after fs::remove_file
ImportStages(st, src, target) ==
  LET copied == Copy(st, src, target)
  IN  <<copied, RemoveFile(copied, src)>>

\* the import callback linking in the direction Normal mode links
CbImport_LinksLikeNormal(st, src, target, ans) ==
  IF ~Exists(st.fs, target)
  THEN LET s1 == IF IsDir(st.fs, src) THEN CreateDir(st, target, ans) ELSE st
       IN  IF s1.ok /\ IsFile(s1.fs, src)
           THEN CreateFile(ImportStages(s1, src, target)[2], src, target, ans)
           ELSE s1
  ELSE LogWarn(st, "EXIST", target)

CbImport(st, src, target, ans) ==
  IF ~Exists(st.fs, target)
  THEN LET s1 == IF IsDir(st.fs, src) THEN CreateDir(st, target, ans) ELSE st
       IN  IF s1.ok /\ IsFile(s1.fs, src)
           THEN CreateFile(ImportStages(s1, src, target)[2], target, src, ans)
           ELSE s1
  ELSE LogWarn(st, "EXIST", target)

\* the normal callback with the two paths of create_file exchanged
CbNormal_LinksInSource(st, path, target, ans) ==
  IF IsDir(st.fs, path)
  THEN IF ~Exists(st.fs, target) THEN CreateDir(st, target, ans) ELSE st
  ELSE IF IsFile(st.fs, path) THEN CreateFile(st, target, path, ans)
       ELSE st

CbNormal(st, path, target, ans) ==
  IF IsDir(st.fs, path)
  THEN IF ~Exists(st.fs, target) THEN CreateDir(st, target, ans) ELSE st
  ELSE IF IsFile(st.fs, path) THEN CreateFile(st, path, target, ans)
       ELSE st

\* ---- the walker (Configman::dir_walk over ignore::WalkBuilder) ---------
\* the entries a directory holds
Children(f, d) ==
  { l \in DOMAIN f : Len(l) = Len(d) + 1 /\ Parent(l) = d /\ f[l].k # "none" }

\* what the walker yields: Ok(entry) for a path under source, or Err for a
\* directory it could not list
WalkErr(d) == <<"ERR">> \o d
IsEntry(e) == e[1] = Source[1]
Entries(frame) == { e \in frame : IsEntry(e) }
Errors(frame) == { e \in frame : ~IsEntry(e) }

\* after yielding e from the innermost frame: e's own entries come next when
\* e is a directory (symbolic links are not followed), or the error of
\* listing it, then e's siblings
Descend(f, stk, e) ==
  LET rest == Head(stk) \ {e}
      kids == IF ~IsEntry(e) \/ f[e].k # "dir" THEN {}
              ELSE IF f[e] = Unreadable THEN {WalkErr(e)}
              ELSE Children(f, e)
  IN  (IF kids # {} THEN <<kids>> ELSE <<>>)
        \o (IF rest # {} THEN <<rest>> ELSE <<>>)
        \o Tail(stk)

\* the state `run` starts the walk in
Begin(c) == IF c.dry_run THEN <<Ev("log", <<>>, <<"warn", "DRYRUN">>)>> ELSE <<>>
Start(f, tr) == [fs |-> f, tr |-> tr, ok |-> TRUE]

\* the loop going on to the next entry after a callback's error
Iterate_KeepsGoing(e, r) ==
  /\ fs' = r.fs
  /\ trace' = r.tr
  /\ stack' = Descend(r.fs, stack, e)
  /\ pc' = "walk"
  /\ result' = IF r.ok THEN result ELSE "err"
  /\ UNCHANGED <<flags, fs0, run, hist>>

\* one iteration of the loop in dir_walk: entry e goes to the callback, whose
\* outcome is r; an error ends the run
Iterate(e, r) ==
  /\ fs' = r.fs
  /\ trace' = r.tr
  /\ IF r.ok
     THEN /\ stack' = Descend(r.fs, stack, e)
          /\ pc' = "walk"
          /\ result' = "running"
     ELSE /\ stack' = stack
          /\ pc' = "done"
          /\ result' = "err"
  /\ UNCHANGED <<flags, fs0, run, hist>>

Entered(e) == Start(fs, Append(trace, Ev("visit", e, <<>>)))
DestOf(e) == Join(Destination, StripPrefix(e, Source))

VisitDryRun ==
  /\ pc = "walk" /\ stack # <<>> /\ Mode(flags) = "DryRun"
  /\ \E e \in Entries(Head(stack)) :
       Iterate(e, CbDryRun(Entered(e), e, DestOf(e)))

VisitRemove ==
  /\ pc = "walk" /\ stack # <<>> /\ Mode(flags) = "Remove"
  /\ \E e \in Entries(Head(stack)), ans \in Answers :
       Iterate(e, CbRemove(Entered(e), e, DestOf(e), ans))

VisitImport ==
  /\ pc = "walk" /\ stack # <<>> /\ Mode(flags) = "Import"
  /\ \E e \in Entries(Head(stack)), ans \in Answers :
       Iterate(e, CbImport(Entered(e), e, DestOf(e), ans))

VisitNormal ==
  /\ pc = "walk" /\ stack # <<>> /\ Mode(flags) = "Normal"
  /\ \E e \in Entries(Head(stack)), ans \in Answers :
       Iterate(e, CbNormal(Entered(e), e, DestOf(e), ans))

\* the walker's error ending the run
WalkError_Aborts ==
  /\ pc = "walk" /\ stack # <<>>
  /\ \E e \in Errors(Head(stack)) :
       trace' = Append(trace, Ev("log", StripPrefix(e, <<"ERR">>), <<"warn", "WALKERR">>))
  /\ pc' = "done"
  /\ result' = "err"
  /\ UNCHANGED <<fs, flags, stack, fs0, run, hist>>

\* the walker yields an error instead of an entry: it is logged as a warning
\* and the loop goes on
WalkError ==
  /\ pc = "walk" /\ stack # <<>>
  /\ \E e \in Errors(Head(stack)) :
       /\ trace' = Append(trace, Ev("log", StripPrefix(e, <<"ERR">>), <<"warn", "WALKERR">>))
       /\ stack' = Descend(fs, stack, e)
  /\ UNCHANGED <<fs, flags, pc, result, fs0, run, hist>>

\* the walker is exhausted: dir_walk and run return Ok
Finish ==
  /\ pc = "walk" /\ stack = <<>>
  /\ pc' = "done"
  /\ result' = "ok"
  /\ UNCHANGED <<fs, flags, stack, trace, fs0, run, hist>>

\* ---- initial trees -----------------------------------------------------
SrcA == {None, File(Source \o <<"a">>), Link(ExtGone)}
SrcSub == {None, Dir, Unreadable}
SrcB == {None, File(Source \o <<"sub", "b">>)}
SrcGit == {None, Dir}
DstA == {None, File(Destination \o <<"a">>), Dir, Link(Source \o <<"a">>),
         Link(ExtFile), Link(ExtGone)}
DstSub == {None, File(Destination \o <<"sub">>), Dir}
DstB == {None, File(Destination \o <<"sub", "b">>),
         Link(Source \o <<"sub", "b">>), Link(ExtFile)}

Tree(sa, ssub, sb, sgit, da, dsub, db) ==
  [l \in Loc |->
     CASE l = Source -> Dir
       [] l = Destination -> Dir
       [] l = ExtFile -> File(ExtFile)
       [] l = ExtGone -> None
       [] l = Source \o <<"a">> -> sa
       [] l = Source \o <<"sub">> -> ssub
       [] l = Source \o <<"sub", "b">> -> IF ssub.k = "dir" THEN sb ELSE None
       [] l = Source \o <<".git">> -> sgit
       [] l = Source \o <<".git", "config">> ->
            IF sgit = Dir THEN File(Source \o <<".git", "config">>) ELSE None
       [] l = Destination \o <<"a">> -> da
       [] l = Destination \o <<"sub">> -> dsub
       [] l = Destination \o <<"sub", "b">> -> IF dsub = Dir THEN db ELSE None
       [] OTHER -> None]

Trees ==
  { Tree(sa, ssub, sb, sgit, da, dsub, db) :
      sa \in SrcA, ssub \in SrcSub, sb \in SrcB, sgit \in SrcGit,
      da \in DstA, dsub \in DstSub, db \in DstB }

Init ==
  /\ fs \in Trees
  /\ flags \in FlagSets
  /\ stack = <<{Source}>>
  /\ pc = "walk"
  /\ result = "running"
  /\ trace = Begin(flags)
  /\ fs0 = fs
  /\ run = 1
  /\ hist = <<>>

\* one invocation of the program, on any of the trees
Next ==
  \/ VisitDryRun
  \/ VisitRemove
  \/ VisitImport
  \/ VisitNormal
  \/ WalkError
  \/ Finish

Spec == Init /\ [][Next]_vars

\* ---- successive invocations --------------------------------------------
\* scripted use: no prompts, at most one mode flag per invocation
SeqFlagSets ==
  { c \in FlagSets :
      /\ ~c.interactive
      /\ ~(c.dry_run /\ (c.import \/ c.remove)) }

SeqTrees ==
  { Tree(sa, ssub, sb, None, da, dsub, db) :
      sa \in SrcA, ssub \in SrcSub, sb \in SrcB,
      da \in {None, File(Destination \o <<"a">>), Dir}, dsub \in {None, Dir},
      db \in {None, Link(ExtFile)} }

\* the program is invoked again on the trees the last invocation left
NextRun ==
  /\ pc = "done" /\ run < MaxRuns
  /\ \E c \in SeqFlagSets :
       /\ flags' = c
       /\ trace' = Begin(c)
  /\ hist' = Append(hist, [flags |-> flags, result |-> result,
                           trace |-> trace, fs0 |-> fs0])
  /\ fs0' = fs
  /\ stack' = <<{Source}>>
  /\ pc' = "walk"
  /\ result' = "running"
  /\ run' = run + 1
  /\ UNCHANGED fs

InitSeq ==
  /\ fs \in SeqTrees
  /\ flags \in SeqFlagSets
  /\ stack = <<{Source}>>
  /\ pc = "walk"
  /\ result = "running"
  /\ trace = Begin(flags)
  /\ fs0 = fs
  /\ run = 1
  /\ hist = <<>>

NextSeq ==
  \/ VisitDryRun
  \/ VisitRemove
  \/ VisitImport
  \/ VisitNormal
  \/ WalkError
  \/ Finish
  \/ NextRun

SpecSeq == InitSeq /\ [][NextSeq]_vars

\* ======================================================================
\* Properties
\* ======================================================================
S(r) == Join(Source, r)
D(r) == Join(Destination, r)
Prev == hist[Len(hist)]
NonInteractive(m) == Mode(flags) = m /\ ~flags.interactive
PrevWas(m) == Len(hist) > 0 /\ Mode(Prev.flags) = m /\ ~Prev.flags.interactive
\* the mutation events of tr that act on, or take their data from, location l
Touching(tr, l) ==
  { i \in DOMAIN tr : tr[i].e \in Mutations /\ (tr[i].p = l \/ tr[i].x = l) }
Mutates(tr) == \E i \in DOMAIN tr : tr[i].e \in Mutations
InfoLines(tr, l) ==
  { i \in DOMAIN tr : tr[i].e = "log" /\ tr[i].p = l /\ tr[i].x[1] = "info" }
UnderGit(l) == \E k \in DOMAIN l : l[k] = ".git"

\* C1: after a completed non-interactive Normal run, a second non-interactive
\* Normal run on the same trees performs no filesystem mutation at all.
C1_SecondNormalRunMutatesNothing ==
  (PrevWas("Normal") /\ Prev.result = "ok" /\ NonInteractive("Normal"))
    => ~Mutates(trace)

\* C2: a non-interactive Normal run leaves every destination entry that
\* existed before the run (file, directory or symlink) exactly as it was.
C2_NormalNeverOverwrites ==
  NonInteractive("Normal")
    => \A r \in Rel :
         (fs0[S(r)].k # "none" /\ fs0[D(r)].k # "none") => fs[D(r)] = fs0[D(r)]

\* C3: after a non-interactive Normal run that ended without error, every
\* visited regular source file whose destination path was absent is a symlink
\* at the destination pointing to the source file, and every visited source
\* directory whose destination path was absent is a real directory at the
\* destination.
C3_NormalLinksAbsent ==
  (pc = "done" /\ result = "ok" /\ NonInteractive("Normal"))
    => \A r \in Rel :
         (\E i \in DOMAIN trace : trace[i] = Ev("visit", S(r), <<>>))
           => /\ (fs0[S(r)].k = "file" /\ fs0[D(r)].k = "none")
                   => fs[D(r)] = Link(S(r))
              /\ (fs0[S(r)].k = "dir" /\ fs0[D(r)].k = "none")
                   => fs[D(r)] = Dir

C3_Witness ==
  /\ pc = "done" /\ result = "ok" /\ NonInteractive("Normal")
  /\ fs0[S(<<"a">>)].k = "file" /\ fs0[D(<<"a">>)].k = "none"
  /\ fs[D(<<"a">>)] = Link(S(<<"a">>))
  /\ fs0[S(<<"sub">>)].k = "dir" /\ fs0[D(<<"sub">>)].k = "none"
  /\ fs[D(<<"sub">>)] = Dir
  /\ fs[D(<<"sub", "b">>)] = Link(S(<<"sub", "b">>))

\* C4: in a Remove run the only change to the filesystem is the deletion of
\* destination symlinks whose target is the corresponding source entry; files,
\* directories, foreign symlinks and everything under source stay as they were.
C4_RemoveOnlyOwnLinks ==
  Mode(flags) = "Remove"
    => \A l \in Loc :
         fs[l] # fs0[l]
           => \E r \in Rel : l = D(r) /\ fs0[l] = Link(S(r)) /\ fs[l] = None

C4_Witness ==
  /\ Mode(flags) = "Remove" /\ pc = "done"
  /\ \E r \in Rel : fs0[D(r)] = Link(S(r)) /\ fs[D(r)] = None
  /\ \E r \in Rel :
       fs0[D(r)].k = "link" /\ fs0[D(r)].v # S(r) /\ fs[D(r)] = fs0[D(r)]

C6_DryRunMutatesNothing ==
  Mode(flags) = "DryRun" => (fs = fs0 /\ ~Mutates(trace))

C6_Witness ==
  /\ Mode(flags) = "DryRun" /\ pc = "done" /\ result = "err"
  /\ \E i \in DOMAIN trace : trace[i].e = "log" /\ trace[i].x = <<"info", "CREATE">>
  /\ \E i \in DOMAIN trace : trace[i].e = "log" /\ trace[i].x = <<"info", "LINK">>

\* C7: DryRun previews Normal: on the same trees, DryRun logs exactly one line
\* for every walked entry (here: every one below the source directory, which
\* is walked too), and the line says CREATE exactly when Normal
\* creates the directory, LINK exactly when Normal creates the symlink, and
\* SKIP exactly when Normal leaves the destination untouched.
C7_DryRunPreviewsNormal ==
  (PrevWas("DryRun") /\ Prev.result = "ok" /\ Prev.fs0 = fs0
     /\ NonInteractive("Normal") /\ pc = "done" /\ result = "ok")
    => \A i \in DOMAIN Prev.trace :
         (Prev.trace[i].e = "visit" /\ Prev.trace[i].p # Source)
           => LET d == DestOf(Prev.trace[i].p)
                  lines == InfoLines(Prev.trace, d)
                  did == { trace[j].e : j \in Touching(trace, d) }
              IN  /\ Cardinality(lines) = 1
                  /\ \A j \in lines :
                       /\ Prev.trace[j].x[2] = "CREATE" <=> "mkdir" \in did
                       /\ Prev.trace[j].x[2] = "LINK" <=> "symlink" \in did
                       /\ Prev.trace[j].x[2] = "SKIP" <=> did = {}

\* C8: no entry at or below a .git directory of source is ever handed to the
\* callback, and nothing at or below .git in destination is created or linked.
C8_GitNeverVisited ==
  /\ \A i \in DOMAIN trace : trace[i].e = "visit" => ~UnderGit(trace[i].p)
  /\ \A l \in Loc : UnderGit(l) => fs[l] = fs0[l]

\* C9: from an empty destination, a non-interactive Normal run followed by a
\* non-interactive Remove run leaves no symlink (and no file) in destination,
\* and leaves as directories exactly those the Normal run created.
DestEmpty(f) == \A r \in Rel : f[D(r)].k = "none"
C9_RemoveUndoesNormal ==
  (PrevWas("Normal") /\ Prev.result = "ok" /\ DestEmpty(Prev.fs0)
     /\ NonInteractive("Remove") /\ pc = "done" /\ result = "ok")
    => \A r \in Rel :
         /\ fs[D(r)].k \in {"none", "dir"}
         /\ fs[D(r)].k = "dir"
              <=> \E i \in DOMAIN Prev.trace : Prev.trace[i] = Ev("mkdir", D(r), <<>>)

C9_Witness ==
  /\ PrevWas("Normal") /\ Prev.result = "ok" /\ DestEmpty(Prev.fs0)
  /\ NonInteractive("Remove") /\ pc = "done" /\ result = "ok"
  /\ Prev.fs0[S(<<"a">>)].k = "file" /\ Prev.fs0[S(<<"sub", "b">>)].k = "file"
  /\ fs0[D(<<"a">>)] = Link(S(<<"a">>))
  /\ fs0[D(<<"sub", "b">>)] = Link(S(<<"sub", "b">>))
  /\ fs[D(<<"a">>)] = None /\ fs[D(<<"sub", "b">>)] = None
  /\ fs[D(<<"sub">>)] = Dir

\* C10: with --interactive, every filesystem mutation happens only after the
\* prompt of the same callback was answered yes; so an interactive Import run
\* in which no prompt is answered yes changes neither tree.
Confirmed(tr, i) ==
  \E j \in 1..(i - 1) :
    /\ tr[j].e = "prompt" /\ tr[j].x[2] = "y"
    /\ \A k \in j..i : tr[k].e # "visit"
C10_MutationsAreGated ==
  flags.interactive
    => /\ \A i \in DOMAIN trace : trace[i].e \in Mutations => Confirmed(trace, i)
       /\ (Mode(flags) = "Import"
             /\ (\A i \in DOMAIN trace : trace[i].e = "prompt" => trace[i].x[2] # "y"))
            => fs = fs0

\* ---- helpers for the claims about prompts, order and errors -----------
Visits(tr) == { i \in DOMAIN tr : tr[i].e = "visit" }
VisitsOf(tr, e) == { i \in Visits(tr) : tr[i].p = e }
AllDeclined(tr) == \A i \in DOMAIN tr : tr[i].e = "prompt" => tr[i].x[2] # "y"
PromptsAt(tr, l) == { i \in DOMAIN tr : tr[i].e = "prompt" /\ tr[i].p = l }
IsWalkErr(ev) == ev.e = "log" /\ ev.x = <<"warn", "WALKERR">>
\* the lines a callback logged for entry e
LogLines(tr, e) ==
  { i \in DOMAIN tr :
      tr[i].e = "log" /\ tr[i].p \in {e, DestOf(e)} /\ ~IsWalkErr(tr[i]) }
\* the callback for e has returned without error
Processed(tr, e) ==
  \E i \in VisitsOf(tr, e) : result # "err" \/ \E j \in Visits(tr) : j > i
StrictlyUnder(l, d) == Len(l) > Len(d) /\ SubSeq(l, 1, Len(d)) = d
\* every directory above l (below the source directory) can be listed
RECURSIVE Listed(_, _)
Listed(f, l) ==
  /\ f[l].k # "none"
  /\ Len(l) = 1 \/ (f[Parent(l)] = Dir /\ Listed(f, Parent(l)))

\* C11 as stated: an interactive Normal run in which every prompt is declined
\* changes nothing and logs exactly one line for every entry.
C11_DeclinedNormalLogsEachEntry ==
  (flags.interactive /\ Mode(flags) = "Normal" /\ AllDeclined(trace))
    => /\ fs = fs0 /\ ~Mutates(trace)
       /\ \A i \in Visits(trace) :
            pc = "done" => Cardinality(LogLines(trace, trace[i].p)) = 1

\* C11 amended: an interactive Normal run in which every prompt is declined
\* changes nothing, does not fail and logs no line for any entry; an entry is
\* prompted for once when it is a file or a directory without destination,
\* and not at all otherwise.
C11_DeclinedNormalMutatesNothing ==
  (flags.interactive /\ Mode(flags) = "Normal" /\ AllDeclined(trace))
    => /\ fs = fs0 /\ ~Mutates(trace) /\ result # "err"
       /\ \A i \in Visits(trace) :
            LET e == trace[i].p
            IN  /\ LogLines(trace, e) = {}
                /\ Cardinality(PromptsAt(trace, DestOf(e))) =
                     IF IsFile(fs0, e) \/ (IsDir(fs0, e) /\ ~Exists(fs0, DestOf(e)))
                     THEN 1 ELSE 0

C11_Witness ==
  /\ flags.interactive /\ Mode(flags) = "Normal" /\ pc = "done"
  /\ \E i \in DOMAIN trace : trace[i].e = "prompt" /\ trace[i].x = <<"Create dir", "n">>
  /\ \E i \in DOMAIN trace : trace[i].e = "prompt" /\ trace[i].x = <<"Overwrite", "err">>
  /\ \E i \in DOMAIN trace : trace[i].e = "prompt" /\ trace[i].x = <<"Create symlink", "n">>
  /\ fs = fs0

C13_ErrorAbortsWalk ==
  /\ [](result = "err" => pc = "done")
  /\ [][result = "err" => (fs' = fs /\ trace' = trace /\ result' = "err")]_vars

C13_Witness ==
  /\ result = "err" /\ pc = "done" /\ Mutates(trace)
  /\ \E e \in Entries(Head(stack)) : VisitsOf(trace, e) = {}

\* C14: an error of the walker is skipped: nothing below the directory that
\* could not be listed is visited, every entry that can be listed is visited
\* by the end of a run, and a run never fails at a walker error.
C14_WalkErrorIsSkipped ==
  /\ \A i \in DOMAIN trace :
       IsWalkErr(trace[i])
         => \A j \in Visits(trace) : ~StrictlyUnder(trace[j].p, trace[i].p)
  /\ (pc = "done" /\ result = "ok")
       => \A r \in Rel : Listed(fs0, S(r)) => VisitsOf(trace, S(r)) # {}
  /\ result = "err"
       => \E i \in Visits(trace) : \A j \in DOMAIN trace : j > i => ~IsWalkErr(trace[j])

C14_Witness ==
  /\ pc = "done" /\ result = "ok"
  /\ \E i \in DOMAIN trace :
       /\ IsWalkErr(trace[i])
       /\ \E j \in Visits(trace) : j > i /\ trace[j].p = S(<<"a">>)
  /\ fs0[S(<<"sub", "b">>)].k = "file"

ParentFirst(tr) ==
  \A i \in Visits(tr) :
    Len(tr[i].p) > 1 => \E j \in VisitsOf(tr, Parent(tr[i].p)) : j < i
\* the callback for e is about to attempt a symlink or a copy
Attempts(f, e) ==
  IsFile(f, e) /\ (Mode(flags) = "Normal" \/ ~Exists(f, DestOf(e)))

\* C15 as stated: in Normal and Import a directory is visited before what it
\* holds, and in a non-interactive run a symlink or copy is attempted only at
\* a destination path whose parent is a directory.
C15_ParentDirectoryExists ==
  Mode(flags) \in {"Normal", "Import"}
    => /\ ParentFirst(trace)
       /\ (~flags.interactive /\ pc = "walk" /\ stack # <<>>)
            => \A e \in Entries(Head(stack)) :
                 Attempts(fs, e) => IsDir(fs, Parent(DestOf(e)))

\* C16 as stated: the callback runs exactly once for every entry below the
\* source directory that the walker can reach, and never for the source
\* directory itself.
C16_OncePerEntryBelowSource ==
  /\ VisitsOf(trace, Source) = {}
  /\ \A r \in Rel : Cardinality(VisitsOf(trace, S(r))) <= 1
  /\ (pc = "done" /\ result = "ok")
       => \A r \in Rel : Listed(fs0, S(r)) => Cardinality(VisitsOf(trace, S(r))) = 1

\* ---- helpers for the claims about the gate and the modes ---------------
Min(A) == CHOOSE x \in A : \A y \in A : x <= y
\* the index that ends the callback which event i belongs to
NextVisit(tr, i) ==
  LET later == { j \in Visits(tr) : j > i }
  IN  IF later = {} THEN Len(tr) + 1 ELSE Min(later)
Segment(tr, i) == (i + 1) .. (NextVisit(tr, i) - 1)
\* the action's own log line, written when it has succeeded
ActionLogs(tr, i, l) ==
  { j \in Segment(tr, i) : tr[j].e = "log" /\ tr[j].x[1] = "info" /\ tr[j].p = l }
\* the callback which event i belongs to returned the error of the run
Failed(tr, i) == NextVisit(tr, i) = Len(tr) + 1 /\ result = "err"
Prompts(tr) == { i \in DOMAIN tr : tr[i].e = "prompt" }
Tags(tr) == { tr[i].x : i \in { j \in DOMAIN tr : tr[j].e = "log" } }
Kinds(tr) == { tr[i].e : i \in DOMAIN tr } \ {"visit", "prompt", "log"}

\* C17: without --interactive an action is run once, unprompted, and its
\* error is the run's error; with --interactive it is run once when the
\* prompt is answered yes, and after any other answer or a failed prompt
\* nothing is done and the callback returns without error.
C17_ConfirmationGate ==
  /\ ~flags.interactive
       => /\ Prompts(trace) = {}
          /\ Mode(flags) = "Normal"
               => \A i \in Visits(trace) :
                    IsFile(fs0, trace[i].p)
                      => \/ /\ Cardinality(ActionLogs(trace, i, DestOf(trace[i].p))) = 1
                            /\ ~Failed(trace, i)
                         \/ /\ ActionLogs(trace, i, DestOf(trace[i].p)) = {}
                            /\ Failed(trace, i)
  /\ flags.interactive
       => \A i \in Prompts(trace) :
            IF trace[i].x[2] = "y"
            THEN \/ /\ Cardinality(ActionLogs(trace, i, trace[i].p)) = 1
                    /\ ~Failed(trace, i)
                 \/ /\ ActionLogs(trace, i, trace[i].p) = {}
                    /\ Failed(trace, i)
            ELSE /\ \A j \in Segment(trace, i) : IsWalkErr(trace[j])
                 /\ ~Failed(trace, i)

C17_Witness ==
  /\ flags.interactive /\ Mode(flags) = "Normal" /\ result = "err"
  /\ \E i, j, k \in Prompts(trace) :
       /\ trace[i].x[2] = "y" /\ ActionLogs(trace, i, trace[i].p) # {}
       /\ trace[j].x[2] = "n"
       /\ trace[k].x[2] = "y" /\ Failed(trace, k)

\* C18: in DryRun a walked entry that is neither a regular file nor a
\* directory makes the run end in an error at that entry: nothing is
\* reported for it or after it.
C18_DryRunRejectsOther ==
  Mode(flags) = "DryRun"
    => \A i \in Visits(trace) :
         (~IsDir(fs0, trace[i].p) /\ ~IsFile(fs0, trace[i].p))
           => i = Len(trace) /\ result = "err" /\ pc = "done"

C18_Witness ==
  /\ Mode(flags) = "DryRun" /\ result = "err"
  /\ trace[Len(trace)] = Ev("visit", S(<<"a">>), <<>>)
  /\ fs0[S(<<"a">>)] = Link(ExtGone)
  /\ \E e \in Entries(Head(stack)) : e # S(<<"a">>) /\ VisitsOf(trace, e) = {}
  /\ \E i \in DOMAIN trace : trace[i].e = "log"

\* C19: the flags fix one mode for the whole run, dry-run before import
\* before remove before normal: everything a run does is what that one
\* mode's callback does, and with --dry-run nothing is changed even when
\* --import or --remove is given too.
C19_ModePriority ==
  /\ flags.dry_run
       => /\ fs = fs0 /\ Kinds(trace) = {} /\ Prompts(trace) = {}
          /\ Tags(trace) \subseteq {<<"warn", "DRYRUN">>, <<"info", "CREATE">>,
                                    <<"info", "SKIP">>, <<"info", "LINK">>,
                                    <<"warn", "WALKERR">>}
          /\ <<"warn", "DRYRUN">> \in Tags(trace)
  /\ (~flags.dry_run /\ flags.import)
       => /\ Kinds(trace) \subseteq {"mkdir", "copy", "unlink", "symlink"}
          /\ Tags(trace) \subseteq {<<"info", "CREATE">>, <<"info", "LINK">>,
                                    <<"warn", "EXIST">>, <<"warn", "WALKERR">>}
          /\ \A i \in DOMAIN trace :
               /\ trace[i].e \in {"symlink", "unlink"} => trace[i].p[1] = Source[1]
               /\ trace[i].e \in {"copy", "mkdir"} => trace[i].p[1] = Destination[1]
          /\ trace # <<>> => \E i \in DOMAIN trace : trace[i].x = <<"warn", "EXIST">>
  /\ (~flags.dry_run /\ ~flags.import /\ flags.remove)
       => /\ Kinds(trace) \subseteq {"unlink"}
          /\ Tags(trace) \subseteq {<<"info", "UNLINKED">>, <<"warn", "WALKERR">>}
  /\ (~flags.dry_run /\ ~flags.import /\ ~flags.remove)
       => /\ Kinds(trace) \subseteq {"mkdir", "unlink", "symlink"}
          /\ Tags(trace) \subseteq {<<"info", "CREATE">>, <<"info", "LINK">>,
                                    <<"warn", "WALKERR">>}
          /\ \A i \in DOMAIN trace :
               trace[i].e \in Mutations => trace[i].p[1] = Destination[1]

C19_Witness ==
  /\ flags.dry_run /\ flags.import /\ pc = "done" /\ result = "ok"
  /\ \E i \in DOMAIN trace : trace[i].x = <<"info", "LINK">>
  /\ \E i \in DOMAIN trace : trace[i].x = <<"info", "CREATE">>

\* every source file's original content is a regular file at its source path
\* or at its destination path
ContentKept(f) ==
  \A r \in Rel :
    fs0[S(r)].k = "file"
      => \/ Stat(f, S(r), MaxHops) = File(fs0[S(r)].v)
         \/ Stat(f, D(r), MaxHops) = File(fs0[S(r)].v)

\* C20: in an Import run every source file's original content is a regular
\* file at its source path or its destination path in every state: between
\* callbacks, after an error, after a declined prompt, and between the
\* copy, the deletion and the symlink inside one callback.
C20_ImportKeepsContent ==
  Mode(flags) = "Import"
    => /\ ContentKept(fs)
       /\ (pc = "walk" /\ stack # <<>>)
            => \A e \in Entries(Head(stack)) :
                 (~Exists(fs, DestOf(e)) /\ IsFile(fs, e))
                   => \A k \in 1..2 :
                        ContentKept(ImportStages(Entered(e), e, DestOf(e))[k].fs)

C20_Witness ==
  /\ Mode(flags) = "Import" /\ flags.interactive
  /\ fs0[S(<<"a">>)].k = "file"
  /\ fs[S(<<"a">>)].k = "none"
  /\ fs[D(<<"a">>)] = File(S(<<"a">>))
  /\ \E i \in Prompts(trace) : trace[i].x[2] # "y"

\* C21 as stated: when a non-interactive Normal run follows a non-interactive
\* Import run on the same trees, every file the Import run imported is still
\* a regular file with its content at the destination, and its source path
\* is still a symlink to it.
C21_NormalKeepsImported ==
  (PrevWas("Import") /\ NonInteractive("Normal"))
    => \A r \in Rel :
         (/\ Prev.fs0[S(r)].k = "file"
          /\ fs0[D(r)] = File(Prev.fs0[S(r)].v)
          /\ fs0[S(r)] = Link(D(r)))
           => fs[D(r)] = fs0[D(r)] /\ fs[S(r)] = fs0[S(r)]

\* everything at and below the source directory is as it was
SourceUnchanged == \A l \in Loc : l[1] = Source[1] => fs[l] = fs0[l]

====
